---- MODULE Spec2Model ----
(***************************************************************************)
(* Model of the django-blog repository: the User / Profile / Post tables,  *)
(* the post_save receivers that provision profiles, the registration view, *)
(* the feed view and the two bulk maintenance scripts.                     *)
(***************************************************************************)
EXTENDS Integers, Sequences, FiniteSets, TLC

(* ---------------------------------------------------------------------- *)
(* Bounds of the exploration                                              *)
(* ---------------------------------------------------------------------- *)
MaxUserId == 2
MaxPostId == 3
MaxRows == 2
MaxClock == 3

(* ---------------------------------------------------------------------- *)
(* Input domains                                                          *)
(* ---------------------------------------------------------------------- *)
ValidEmails == {"a@b.c"}
Methods == {"GET", "POST"}
\* what a browser submits to /register/
RegisterForms ==
    { [username |-> "ann", email |-> "", password1 |-> "pw1", password2 |-> "pw1"],
      [username |-> "bob", email |-> "a@b.c", password1 |-> "pw2", password2 |-> "pw2"],
      [username |-> "bob", email |-> "", password1 |-> "pw1", password2 |-> "pw2"],
      [username |-> "", email |-> "", password1 |-> "pw1", password2 |-> "pw1"],
      [username |-> "ann", email |-> "bad", password1 |-> "pw1", password2 |-> "pw1"],
      [username |-> "bob", email |-> "", password1 |-> "pw1", password2 |-> ""] }
\* JSON objects of the bulk-load file: functions from the keys present
\* (user_id 9 never names a stored User)
JsonRows ==
    { [title |-> "A", content |-> "x", user_id |-> 1],
      [user_id |-> 2],
      [title |-> "A", content |-> "x"],
      [title |-> "B", user_id |-> 9] }
PostTitles == {"C"}
PostContents == {"z"}
\* a timestamp handed explicitly to Post creation, or None for the default
None == -1
SuppliedDates == {None, 0}

VARIABLES
    users,          \* auth_user rows
    profiles,       \* users_profile rows
    posts,          \* blog_post rows, in primary-key order
    nextUserId,     \* autoincrement sequence of auth_user
    nextProfileId,  \* autoincrement sequence of users_profile
    nextPostId,     \* autoincrement sequence of blog_post
    now,            \* the clock read by timezone.now
    born,           \* per stored Post created without a timestamp: the clock at its creation
    out             \* what the last operation received and produced

vars == <<users, profiles, posts, nextUserId, nextProfileId, nextPostId, now, born, out>>

(* ---------------------------------------------------------------------- *)
(* Helpers                                                                *)
(* ---------------------------------------------------------------------- *)
Ev(name, id, text) == [ev |-> name, id |-> id, text |-> text]

Range(s) == { s[i] : i \in 1..Len(s) }

RECURSIVE SelectRows(_, _)
SelectRows(s, keep) ==
    IF s = <<>> THEN <<>>
    ELSE IF Head(s).id \in keep THEN <<Head(s)>> \o SelectRows(Tail(s), keep)
         ELSE SelectRows(Tail(s), keep)

\* the database plus the running handler's trace, threaded through a handler
Db == [users |-> users, profiles |-> profiles, posts |-> posts,
       nextUserId |-> nextUserId, nextProfileId |-> nextProfileId,
       nextPostId |-> nextPostId, now |-> now, born |-> born,
       events |-> <<>>, err |-> "", printed |-> <<>>]

Emit(S, e) == [S EXCEPT !.events = Append(@, e)]

Raise(S, exc) == [S EXCEPT !.err = exc]

(* ---------------------------------------------------------------------- *)
(* users/models.py: Profile                                               *)
(* ---------------------------------------------------------------------- *)
DefaultImage == "default.jpg"

ProfilesOf(S, uid) == { p \in S.profiles : p.user_id = uid }

\* Profile.objects.create(user=instance): the one-to-one column is unique
Profile_objects_create(S, uid) ==
    IF ProfilesOf(S, uid) # {} THEN Raise(S, "IntegrityError")
    ELSE Emit([S EXCEPT !.profiles = @ \cup {[id |-> S.nextProfileId, user_id |-> uid,
                                               image |-> DefaultImage]},
                        !.nextProfileId = @ + 1],
              Ev("Profile.create", uid, DefaultImage))

(* ---------------------------------------------------------------------- *)
(* users/signals.py: the two post_save receivers                          *)
(* ---------------------------------------------------------------------- *)
\* variant: the guard on `created` inverted
create_profile_on_update(S, uid, created) ==
    IF ~created
    THEN Profile_objects_create(Emit(S, Ev("create_profile", uid, "")), uid)
    ELSE S

create_profile(S, uid, created) ==
    IF created
    THEN Profile_objects_create(Emit(S, Ev("create_profile", uid, "")), uid)
    ELSE S

save_profile(S, uid, created) ==
    LET S1 == Emit(S, Ev("save_profile", uid, ""))
    IN  IF ProfilesOf(S1, uid) = {} THEN Raise(S1, "RelatedObjectDoesNotExist")
        ELSE Emit(S1, Ev("Profile.save", uid, (CHOOSE p \in ProfilesOf(S1, uid) : TRUE).image))

\* variant: the receivers connected in the opposite order
receivers_reversed == <<"save_profile", "create_profile">>

\* receivers of post_save for sender=User, in the order they are connected
receivers == <<"create_profile", "save_profile">>

CallReceiver(r, S, uid, created) ==
    IF r = "create_profile" THEN create_profile(S, uid, created)
    ELSE save_profile(S, uid, created)

\* Signal.send: call each receiver in turn; an exception ends the dispatch
RECURSIVE post_save(_, _, _, _)
post_save(rs, S, uid, created) ==
    IF rs = <<>> \/ S.err # "" THEN S
    ELSE post_save(Tail(rs), CallReceiver(Head(rs), S, uid, created), uid, created)

(* ---------------------------------------------------------------------- *)
(* User rows (django.contrib.auth), as the repository uses them           *)
(* ---------------------------------------------------------------------- *)
UserIds(S) == { u.id : u \in S.users }

UsernameTaken(S, name) == \E u \in S.users : u.username = name

\* User.save() of a new row: INSERT, then post_save(created=True)
User_create(S, name) ==
    IF UsernameTaken(S, name) THEN Raise(S, "IntegrityError")
    ELSE LET uid == S.nextUserId
             S1 == Emit([S EXCEPT !.users = @ \cup {[id |-> uid, username |-> name]},
                                  !.nextUserId = @ + 1],
                        Ev("User.insert", uid, name))
         IN  post_save(receivers, S1, uid, TRUE)

\* User.save() of a stored row: UPDATE, then post_save(created=False)
User_update(S, uid) ==
    post_save(receivers, Emit(S, Ev("User.update", uid, "")), uid, FALSE)

\* variant: the author reference declared without a cascade
CascadePosts_do_nothing(S, uid) == S

\* User.delete(): the collector removes the rows that reference the User
CascadePosts(S, uid) ==
    LET keep == { p.id : p \in { q \in Range(S.posts) : q.author_id # uid } }
    IN  [S EXCEPT !.posts = SelectRows(@, keep),
                  !.born = [i \in keep \cap DOMAIN @ |-> @[i]]]

CascadeProfile(S, uid) == [S EXCEPT !.profiles = { p \in @ : p.user_id # uid }]

User_delete(S, uid) ==
    LET S1 == CascadeProfile(CascadePosts(S, uid), uid)
        S2 == Emit(S1, Ev("Post.cascade", Len(S.posts) - Len(S1.posts), ""))
        S3 == Emit(S2, Ev("Profile.cascade", Cardinality(S.profiles) - Cardinality(S1.profiles), ""))
    IN  Emit([S3 EXCEPT !.users = { u \in @ : u.id # uid }], Ev("User.delete", uid, ""))

(* ---------------------------------------------------------------------- *)
(* blog/models.py: Post                                                   *)
(* ---------------------------------------------------------------------- *)
\* variant: default=timezone.now(), evaluated once when the module is loaded
date_posted_default_at_import(S) == 1

\* date_posted = models.DateTimeField(default=timezone.now): read at each creation
date_posted_default(S) == S.now

\* Post.objects.create(...): author is a required reference to a stored User
Post_objects_create(S, title, content, author_id, date_posted) ==
    IF author_id = None \/ author_id \notin UserIds(S) THEN Raise(S, "IntegrityError")
    ELSE LET pid == S.nextPostId
             row == [id |-> pid, title |-> title, content |-> content,
                     date_posted |-> IF date_posted = None THEN date_posted_default(S)
                                     ELSE date_posted,
                     author_id |-> author_id]
         IN  Emit([S EXCEPT !.posts = Append(@, row),
                            !.nextPostId = @ + 1,
                            !.born = IF date_posted = None
                                     THEN [i \in DOMAIN @ \cup {pid} |->
                                              IF i = pid THEN S.now ELSE @[i]]
                                     ELSE @],
                  Ev("Post.insert", pid, title))

\* variant: the rows newest first
RECURSIVE Reverse(_)
Reverse(s) == IF s = <<>> THEN <<>> ELSE Append(Reverse(Tail(s)), Head(s))

Post_objects_latest_first(S) == Reverse(S.posts)

\* Post.objects.all(): every row of the table, as the table scan yields them
Post_objects_all(S) == S.posts

(* ---------------------------------------------------------------------- *)
(* blog/views.py: home                                                    *)
(* ---------------------------------------------------------------------- *)
home(S) ==
    [template |-> "blog/home.html", posts |-> Post_objects_all(S)]

(* ---------------------------------------------------------------------- *)
(* populate_posts.py                                                      *)
(* ---------------------------------------------------------------------- *)
\* dict.get(key, default)
Get(d, key, default) == IF key \in DOMAIN d THEN d[key] ELSE default

Elapse(S, dt) == [S EXCEPT !.now = @ + dt]

\* variant: title and content read from each other's key
LoadOne_swapped_keys(S, post_data) ==
    LET S1 == Post_objects_create(S, Get(post_data, "content", ""),
                                  Get(post_data, "title", ""),
                                  Get(post_data, "user_id", None), None)
    IN  IF S1.err # "" THEN S1
        ELSE [S1 EXCEPT !.printed = Append(@, [title |-> S1.posts[Len(S1.posts)].title,
                                               id |-> S1.posts[Len(S1.posts)].id])]

\* variant: the creation wrapped in try/except, the loop going on
LoadOne_swallow(S, post_data) ==
    LET S1 == Post_objects_create(S, Get(post_data, "title", ""),
                                  Get(post_data, "content", ""),
                                  Get(post_data, "user_id", None), None)
    IN  IF S1.err # "" THEN S
        ELSE [S1 EXCEPT !.printed = Append(@, [title |-> S1.posts[Len(S1.posts)].title,
                                               id |-> S1.posts[Len(S1.posts)].id])]

\* one pass of the loop body: create the Post, then print its title and id
LoadOne(S, post_data) ==
    LET S1 == Post_objects_create(S, Get(post_data, "title", ""),
                                  Get(post_data, "content", ""),
                                  Get(post_data, "user_id", None), None)
    IN  IF S1.err # "" THEN S1
        ELSE [S1 EXCEPT !.printed = Append(@, [title |-> S1.posts[Len(S1.posts)].title,
                                               id |-> S1.posts[Len(S1.posts)].id])]

\* the for loop; dt is the time that passes before each entry is created.
\* An exception leaves the loop: the remaining entries are not visited.
RECURSIVE populate_posts(_, _, _)
populate_posts(S, posts_json, dt) ==
    IF posts_json = <<>> \/ S.err # "" THEN S
    ELSE populate_posts(LoadOne(Elapse(S, dt), Head(posts_json)), Tail(posts_json), dt)

(* ---------------------------------------------------------------------- *)
(* delete_posts.py                                                        *)
(* ---------------------------------------------------------------------- *)
\* variant: the count taken after the rows are gone
delete_posts_count_after(S) ==
    [S EXCEPT !.posts = <<>>,
              !.born = [i \in {} |-> 0],
              !.printed = <<0>>]

\* Post.objects.all().delete() returns the number of rows removed
delete_posts(S) ==
    LET deleted_count == Len(Post_objects_all(S))
    IN  [S EXCEPT !.posts = <<>>,
                  !.born = [i \in {} |-> 0],
                  !.printed = <<deleted_count>>]

(* ---------------------------------------------------------------------- *)
(* users/forms.py: UserRegisterForm                                       *)
(* ---------------------------------------------------------------------- *)
EmptyForm == [username |-> "", email |-> "", password1 |-> "", password2 |-> ""]

\* variant: password2 not compared with password1
form_errors_no_password_match(S, data) ==
    { f \in {"username", "email", "password1", "password2"} :
        \/ f = "username" /\ (data.username = "" \/ UsernameTaken(S, data.username))
        \/ f = "email" /\ data.email # "" /\ data.email \notin ValidEmails
        \/ f = "password1" /\ data.password1 = ""
        \/ f = "password2" /\ data.password2 = "" }

\* the fields the form annotates with an error
form_errors(S, data) ==
    { f \in {"username", "email", "password1", "password2"} :
        \/ f = "username" /\ (data.username = "" \/ UsernameTaken(S, data.username))
        \/ f = "email" /\ data.email # "" /\ data.email \notin ValidEmails
        \/ f = "password1" /\ data.password1 = ""
        \/ f = "password2" /\ (data.password2 = "" \/
                               (data.password1 # "" /\ data.password1 # data.password2)) }

is_valid(S, data) == form_errors(S, data) = {}

(* ---------------------------------------------------------------------- *)
(* users/views.py: register                                               *)
(* ---------------------------------------------------------------------- *)
Render(S, form, errors) ==
    [state |-> Emit(S, Ev("render", 0, "users/register.html")),
     response |-> [kind |-> "render", target |-> "users/register.html",
                   form |-> form, errors |-> errors]]

\* variant: the success message emitted before the form is saved
register_message_first(S, method, data) ==
    IF method = "POST"
    THEN IF is_valid(S, data)
         THEN LET username == data.username
                  S1 == User_create(Emit(S, Ev("messages.success", 0, username)), data.username)
                  S3 == Emit(S1, Ev("redirect", 0, "blog-home"))
              IN  IF S1.err # ""
                  THEN [state |-> S1, response |-> [kind |-> "error", target |-> S1.err,
                                                    form |-> data, errors |-> {}]]
                  ELSE [state |-> S3, response |-> [kind |-> "redirect", target |-> "blog-home",
                                                    form |-> data, errors |-> {}]]
         ELSE Render(S, data, form_errors(S, data))
    ELSE Render(S, EmptyForm, {})

register(S, method, data) ==
    IF method = "POST"
    THEN IF is_valid(S, data)
         THEN LET S1 == User_create(S, data.username)
                  username == data.username
                  S2 == Emit(S1, Ev("messages.success", 0, username))
                  S3 == Emit(S2, Ev("redirect", 0, "blog-home"))
              IN  IF S1.err # ""
                  THEN [state |-> S1, response |-> [kind |-> "error", target |-> S1.err,
                                                    form |-> data, errors |-> {}]]
                  ELSE [state |-> S3, response |-> [kind |-> "redirect", target |-> "blog-home",
                                                    form |-> data, errors |-> {}]]
         ELSE Render(S, data, form_errors(S, data))
    ELSE Render(S, EmptyForm, {})

(* ---------------------------------------------------------------------- *)
(* State machine                                                          *)
(* ---------------------------------------------------------------------- *)
NoResponse == [kind |-> "", target |-> "", form |-> EmptyForm, errors |-> {}]

Out(op, input, S, response, listing) ==
    [op |-> op, input |-> input, err |-> S.err, events |-> S.events,
     printed |-> S.printed, response |-> response, listing |-> listing]

Commit(S) ==
    /\ users' = S.users
    /\ profiles' = S.profiles
    /\ posts' = S.posts
    /\ nextUserId' = S.nextUserId
    /\ nextProfileId' = S.nextProfileId
    /\ nextPostId' = S.nextPostId
    /\ now' = S.now
    /\ born' = S.born

Init ==
    /\ users = {}
    /\ profiles = {}
    /\ posts = <<>>
    /\ nextUserId = 1
    /\ nextProfileId = 1
    /\ nextPostId = 1
    /\ now = 1
    /\ born = [i \in {} |-> 0]
    /\ out = Out("init", <<>>, Db, NoResponse, <<>>)

\* a request to /register/
Register ==
    \E method \in Methods, data \in RegisterForms \cup {EmptyForm} :
        LET r == register(Db, method, data)
        IN  /\ nextUserId <= MaxUserId
            /\ method = "GET" <=> data = EmptyForm
            /\ Commit(r.state)
            /\ out' = Out("register", <<method, data>>, r.state, r.response, <<>>)

\* a save of a stored User that changes none of the modelled columns
\* (the login view saves the User to record last_login)
UpdateUser ==
    \E u \in users :
        LET S == User_update(Db, u.id)
        IN  /\ Commit(S)
            /\ out' = Out("user_update", <<u.id>>, S, NoResponse, <<>>)

\* deletion of a stored User
DeleteUser ==
    \E u \in users :
        LET S == User_delete(Db, u.id)
        IN  /\ Commit(S)
            /\ out' = Out("user_delete", <<u.id>>, S, NoResponse, <<>>)

\* a single Post inserted directly, with or without an explicit timestamp
CreatePost ==
    \E title \in PostTitles, content \in PostContents,
       author_id \in 1..MaxUserId, date_posted \in SuppliedDates :
        LET S == Post_objects_create(Db, title, content, author_id, date_posted)
        IN  /\ nextPostId <= MaxPostId
            /\ Commit(S)
            /\ out' = Out("post_create", <<title, content, author_id, date_posted>>,
                          S, NoResponse, <<>>)

\* the bulk-load script on a JSON array
PopulatePosts ==
    \E n \in 0..MaxRows :
      \E posts_json \in [1..n -> JsonRows], dt \in 0..1 :
        LET S == populate_posts(Db, posts_json, dt)
        IN  /\ nextPostId + n - 1 <= MaxPostId
            /\ S.now <= MaxClock
            /\ Commit(S)
            /\ out' = Out("populate_posts", <<posts_json, dt>>, S, NoResponse, <<>>)

\* the bulk-delete script
DeletePosts ==
    LET S == delete_posts(Db)
    IN  /\ Commit(S)
        /\ out' = Out("delete_posts", <<>>, S, NoResponse, <<>>)

\* a request to the feed
Home ==
    LET r == home(Db)
    IN  /\ out' = Out("home", <<>>, Db, [NoResponse EXCEPT !.kind = "render", !.target = r.template],
                      r.posts)
        /\ UNCHANGED <<users, profiles, posts, nextUserId, nextProfileId, nextPostId, now, born>>

\* time passes between operations
Tick ==
    /\ now < MaxClock
    /\ now' = now + 1
    /\ out' = Out("tick", <<>>, Db, NoResponse, <<>>)
    /\ UNCHANGED <<users, profiles, posts, nextUserId, nextProfileId, nextPostId, born>>

Next ==
    \/ Register
    \/ UpdateUser
    \/ DeleteUser
    \/ CreatePost
    \/ PopulatePosts
    \/ DeletePosts
    \/ Home
    \/ Tick

Spec == Init /\ [][Next]_vars

(* ---------------------------------------------------------------------- *)
(* Properties                                                             *)
(* ---------------------------------------------------------------------- *)
EvNames(es) == [i \in 1..Len(es) |-> es[i].ev]

HasEvent(es, name) == \E i \in 1..Len(es) : es[i].ev = name

PostIds(ps) == { ps[i].id : i \in 1..Len(ps) }

\* C1: through every sequence of User creations, saves and deletions each
\* stored User has exactly one Profile and each Profile belongs to a stored
\* User; the Profile of a User that registration has just created carries
\* the default image.
C1_OneProfilePerUser ==
    /\ \A u \in users : Cardinality({ p \in profiles : p.user_id = u.id }) = 1
    /\ \A p \in profiles : Cardinality({ u \in users : u.id = p.user_id }) = 1
    /\ (out.op = "register" /\ out.response.kind # "render") =>
          \E u \in users :
             /\ u.username = out.input[2].username
             /\ \A p \in profiles : p.user_id = u.id => p.image = "default.jpg"

C1_Witness ==
    /\ out.op = "user_update"
    /\ nextUserId = 3
    /\ Cardinality(users) = 1
    /\ Cardinality(profiles) = 1

\* C2: deleting a User deletes the Posts it authored and its Profile: right
\* after the deletion no Post and no Profile refers to it, and in every
\* state every Post's author and every Profile's user is a stored User.
C2_CascadeDelete ==
    /\ \A i \in 1..Len(posts) : \E u \in users : u.id = posts[i].author_id
    /\ \A p \in profiles : \E u \in users : u.id = p.user_id
    /\ out.op = "user_delete" =>
          /\ \A i \in 1..Len(posts) : posts[i].author_id # out.input[1]
          /\ \A p \in profiles : p.user_id # out.input[1]
          /\ \A u \in users : u.id # out.input[1]

C2_Witness ==
    /\ out.op = "user_delete"
    /\ \E i \in 1..Len(out.events) : out.events[i].ev = "Post.cascade" /\ out.events[i].id >= 1
    /\ posts # <<>>

\* C3: a POST to registration whose two passwords differ, or that fails
\* validation otherwise, redisplays the form, creates no User and no
\* Profile, emits no success notification, does not redirect, and leaves
\* Users, Profiles and Posts as they were.
C3_InvalidRegistration ==
    [][ (/\ out'.op = "register"
         /\ out'.input[1] = "POST"
         /\ \/ out'.input[2].password1 # out'.input[2].password2
            \/ out'.input[2].username = ""
            \/ \E u \in users : u.username = out'.input[2].username
            \/ out'.input[2].email \notin {"", "a@b.c"})
        => /\ users' = users /\ profiles' = profiles /\ posts' = posts
           /\ nextUserId' = nextUserId
           /\ out'.response.kind = "render"
           /\ out'.response.target = "users/register.html"
           /\ out'.response.form = out'.input[2]
           /\ out'.response.errors # {}
           /\ ~HasEvent(out'.events, "messages.success")
           /\ ~HasEvent(out'.events, "redirect")
           /\ ~HasEvent(out'.events, "User.insert") ]_vars

C3_Witness ==
    /\ out.op = "register"
    /\ out.input[1] = "POST"
    /\ out.input[2].password1 # out.input[2].password2
    /\ out.input[2].password2 # ""
    /\ out.response.kind = "render"
    /\ "password2" \in out.response.errors
    /\ users # {}

\* C4: a POST to registration that passes validation stores exactly one new
\* User, then emits the success notification naming the submitted username,
\* then redirects to the feed, in that order; a GET only displays an empty
\* form and stores nothing.
C4_ValidRegistration ==
    [][ /\ (/\ out'.op = "register"
            /\ out'.input[1] = "POST"
            /\ out'.input[2].password1 = out'.input[2].password2
            /\ out'.input[2].password1 # ""
            /\ out'.input[2].username # ""
            /\ ~\E u \in users : u.username = out'.input[2].username
            /\ out'.input[2].email \in {"", "a@b.c"})
           => /\ users \subseteq users'
              /\ Cardinality(users' \ users) = 1
              /\ \A u \in users' \ users : u.username = out'.input[2].username
              /\ \E i, j, k \in 1..Len(out'.events) :
                    /\ i < j /\ j < k /\ k = Len(out'.events)
                    /\ out'.events[i].ev = "User.insert"
                    /\ out'.events[j].ev = "messages.success"
                    /\ out'.events[j].text = out'.input[2].username
                    /\ out'.events[k].ev = "redirect"
                    /\ out'.events[k].text = "blog-home"
              /\ Cardinality({ i \in 1..Len(out'.events) :
                                 out'.events[i].ev \in {"User.insert", "messages.success", "redirect"} }) = 3
              /\ out'.response.kind = "redirect"
        /\ (out'.op = "register" /\ out'.input[1] = "GET")
           => /\ users' = users /\ profiles' = profiles /\ posts' = posts
              /\ nextUserId' = nextUserId
              /\ EvNames(out'.events) = <<"render">>
              /\ out'.response.kind = "render"
              /\ out'.response.form = [username |-> "", email |-> "", password1 |-> "", password2 |-> ""]
              /\ out'.response.errors = {} ]_vars

C4_Witness ==
    /\ out.op = "register"
    /\ out.input[1] = "POST"
    /\ out.response.kind = "redirect"
    /\ Cardinality(users) = 2
    /\ \E u \in users : u.username = out.input[2].username /\ u.id = 2

\* the entries of a bulk-load array that name a stored User
RowIsLoadable(r) == "user_id" \in DOMAIN r /\ \E u \in users : u.id = r.user_id

\* the Post that entry r must become
RowMatches(p, r) ==
    /\ p.title = (IF "title" \in DOMAIN r THEN r.title ELSE "")
    /\ p.content = (IF "content" \in DOMAIN r THEN r.content ELSE "")
    /\ p.author_id = r.user_id

\* C5: bulk load of N objects that all name stored Users creates exactly N
\* new Posts, one per object in input order, with the object's title and
\* content (empty string for a missing key) and its user_id as author, and
\* reports each created Post's title and identifier; earlier Posts are
\* unchanged.
C5_BulkLoad ==
    [][ (/\ out'.op = "populate_posts"
         /\ \A k \in 1..Len(out'.input[1]) : RowIsLoadable(out'.input[1][k]))
        => LET rows == out'.input[1]
               n == Len(rows)
               m == Len(posts)
           IN  /\ out'.err = ""
               /\ Len(posts') = m + n
               /\ SubSeq(posts', 1, m) = posts
               /\ \A k \in 1..n :
                     /\ RowMatches(posts'[m + k], rows[k])
                     /\ posts'[m + k].id \notin PostIds(posts)
                     /\ \A j \in 1..n : j # k => posts'[m + j].id # posts'[m + k].id
               /\ Len(out'.printed) = n
               /\ \A k \in 1..n :
                     out'.printed[k] = [title |-> posts'[m + k].title, id |-> posts'[m + k].id] ]_vars

C5_Witness ==
    /\ out.op = "populate_posts"
    /\ out.err = ""
    /\ Len(out.input[1]) = 2
    /\ "title" \notin DOMAIN out.input[1][2]
    /\ "title" \in DOMAIN out.input[1][1]
    /\ Len(out.printed) = 2
    /\ Len(posts) = 3

\* C6: bulk delete removes every Post and reports a count equal to the
\* number of Posts stored just before (0 on an empty table); Users and
\* Profiles are unchanged.
C6_BulkDelete ==
    [][ out'.op = "delete_posts"
        => /\ posts' = <<>>
           /\ out'.printed = <<Len(posts)>>
           /\ users' = users
           /\ profiles' = profiles ]_vars

C6_Witness ==
    /\ out.op = "delete_posts"
    /\ out.printed = <<2>>
    /\ posts = <<>>
    /\ users # {}

C8_DefaultTimestamp ==
    /\ \A i \in 1..Len(posts) :
          posts[i].id \in DOMAIN born => posts[i].date_posted = born[posts[i].id]
    /\ \A i, j \in 1..Len(posts) :
          (i < j /\ posts[i].id \in DOMAIN born /\ posts[j].id \in DOMAIN born)
             => posts[i].date_posted <= posts[j].date_posted
    /\ out.op = "populate_posts" =>
          \A k \in 1..Len(out.printed) : out.printed[k].id \in DOMAIN born

C8_Witness ==
    /\ out.op = "populate_posts"
    /\ Len(out.printed) = 1
    /\ Len(posts) = 3
    /\ posts[1].id \in DOMAIN born
    /\ posts[2].id \notin DOMAIN born
    /\ posts[1].date_posted < posts[3].date_posted
    /\ posts[2].date_posted < posts[1].date_posted

\* index of the first entry without a user_id, 0 when there is none
FirstWithoutUser(rows) ==
    IF \E k \in 1..Len(rows) : "user_id" \notin DOMAIN rows[k]
    THEN CHOOSE k \in 1..Len(rows) :
            /\ "user_id" \notin DOMAIN rows[k]
            /\ \A j \in 1..(k - 1) : "user_id" \in DOMAIN rows[j]
    ELSE 0

\* C9: in bulk load an entry without user_id creates no Post and the
\* failure leaves the load: later entries are not processed, and the Posts
\* of the entries before it stay stored.
C9_BulkLoadStopsAtMissingUser ==
    [][ (/\ out'.op = "populate_posts"
         /\ FirstWithoutUser(out'.input[1]) > 0
         /\ \A j \in 1..(FirstWithoutUser(out'.input[1]) - 1) : RowIsLoadable(out'.input[1][j]))
        => LET rows == out'.input[1]
               k == FirstWithoutUser(rows)
               m == Len(posts)
           IN  /\ out'.err = "IntegrityError"
               /\ Len(posts') = m + k - 1
               /\ SubSeq(posts', 1, m) = posts
               /\ \A j \in 1..(k - 1) : RowMatches(posts'[m + j], rows[j])
               /\ Len(out'.printed) = k - 1 ]_vars

C9_Witness ==
    /\ out.op = "populate_posts"
    /\ out.err = "IntegrityError"
    /\ Len(out.input[1]) = 2
    /\ "user_id" \notin DOMAIN out.input[1][2]
    /\ Len(out.printed) = 1
    /\ posts # <<>>
    /\ posts[Len(posts)].id = out.printed[1].id

\* C10: on every User save create_profile runs before save_profile: for a
\* new User the Profile is created and then saved, for a stored User no
\* Profile is created and its own Profile is saved; save_profile never runs
\* for a User without a Profile.
C10_ReceiverOrder ==
    [][ /\ (out'.op = "register" /\ out'.response.kind # "render")
           => /\ Len(out'.events) >= 5
              /\ SubSeq(EvNames(out'.events), 1, 5) =
                    <<"User.insert", "create_profile", "Profile.create", "save_profile", "Profile.save">>
              /\ \A i \in 2..5 : out'.events[i].id = out'.events[1].id
              /\ Cardinality(profiles' \ profiles) = 1
        /\ out'.op = "user_update"
           => /\ EvNames(out'.events) = <<"User.update", "save_profile", "Profile.save">>
              /\ out'.events[3].id = out'.input[1]
              /\ profiles' = profiles
        /\ out'.err # "RelatedObjectDoesNotExist" ]_vars

C10_Witness ==
    /\ out.op = "user_update"
    /\ out.input[1] = 2
    /\ EvNames(out.events) = <<"User.update", "save_profile", "Profile.save">>
    /\ Cardinality(users) = 2

====
